---- MODULE Spec2Model ----
(***************************************************************************)
(* Model of docs/init-project_scripts/install-dependencies.py:             *)
(* check_dependency, run_command, install_packages and main, together      *)
(* with the child processes that subprocess.run launches and waits for.    *)
(*                                                                         *)
(* Standard output is kept as the last line printed plus the number of     *)
(* lines printed of each kind; the commands handed to subprocess.run are   *)
(* kept in full, in order.                                                 *)
(***************************************************************************)
EXTENDS Integers, Sequences, FiniteSets, TLC

\* Child processes exit with a return code in 0..MaxExitCode.
MaxExitCode == 2

ExitCodes == 0..MaxExitCode

----------------------------------------------------------------------------
\* The package lists of main, in declaration order.

core_packages ==
    << <<"express@^4.18.2", "Express installed">>,
       <<"cors@^2.8.5", "CORS installed">>,
       <<"helmet@^7.1.0", "Helmet installed">>,
       <<"express-rate-limit@^7.1.5", "Express Rate Limit installed">>,
       <<"compression@^1.7.4", "Compression installed">>,
       <<"dotenv@^16.4.5", "Dotenv installed">> >>

db_packages ==
    << <<"pg@^8.11.3", "PostgreSQL client installed">>,
       <<"pg-hstore@^2.3.4", "PostgreSQL HStore installed">>,
       <<"sequelize@^6.37.1", "Sequelize installed">>,
       <<"sequelize-cli@^6.6.2", "Sequelize CLI installed">> >>

security_packages ==
    << <<"bcrypt@^5.1.1", "Bcrypt installed">>,
       <<"jsonwebtoken@^9.0.2", "JSON Web Token installed">>,
       <<"cookie-parser@^1.4.6", "Cookie Parser installed">> >>

\* Variant of utility_packages: the list cut after its sixth entry.
utility_packages_short ==
    << <<"multer@^1.4.5-lts.1", "Multer installed">>,
       <<"sharp@^0.33.2", "Sharp installed">>,
       <<"redis@^4.6.13", "Redis installed">>,
       <<"nodemailer@^6.9.9", "Nodemailer installed">>,
       <<"joi@^17.12.2", "Joi installed">>,
       <<"winston@^3.11.0", "Winston installed">> >>

utility_packages ==
    << <<"multer@^1.4.5-lts.1", "Multer installed">>,
       <<"sharp@^0.33.2", "Sharp installed">>,
       <<"redis@^4.6.13", "Redis installed">>,
       <<"nodemailer@^6.9.9", "Nodemailer installed">>,
       <<"joi@^17.12.2", "Joi installed">>,
       <<"winston@^3.11.0", "Winston installed">>,
       <<"swagger-ui-express@^5.0.0", "Swagger UI Express installed">>,
       <<"aws-sdk@^2.1564.0", "AWS SDK installed">>,
       <<"lodash@^4.17.21", "Lodash installed">> >>

dev_packages ==
    << <<"nodemon@^3.0.3", "Nodemon installed">>,
       <<"eslint@^8.57.0", "ESLint installed">>,
       <<"jest@^29.7.0", "Jest installed">>,
       <<"supertest@^6.3.4", "Supertest installed">> >>

\* The two check_dependency calls of main, in order.
Probes ==
    << [command |-> "node --version", name |-> "Node.js"],
       [command |-> "yarn --version", name |-> "Yarn"] >>

\* The five install_packages calls of main, in order, each with the header
\* main prints before it and the is_dev argument it passes.
InstallCalls ==
    << [group |-> "core",        packages |-> core_packages,     is_dev |-> FALSE],
       [group |-> "database",    packages |-> db_packages,       is_dev |-> FALSE],
       [group |-> "security",    packages |-> security_packages, is_dev |-> FALSE],
       [group |-> "utility",     packages |-> utility_packages,  is_dev |-> FALSE],
       [group |-> "development", packages |-> dev_packages,      is_dev |-> TRUE] >>

GroupNames == {InstallCalls[g].group : g \in DOMAIN InstallCalls}

----------------------------------------------------------------------------
\* Pure parts of the functions.

\* Variant of Command: is_dev ignored.
CommandNoFlag(package, is_dev) == <<"yarn", "add", "", package>>

\* install_packages line 32: f"yarn add {'--dev' if is_dev else ''} {package}",
\* as the pieces the f-string joins with single spaces.
Command(package, is_dev) ==
    <<"yarn", "add", IF is_dev THEN "--dev" ELSE "", package>>

\* shell=True: the shell splits the command line at spaces, so an empty piece
\* yields no word.
ShellWords(cmd) == SelectSeq(cmd, LAMBDA w : w # "")

\* subprocess.run(..., check=True): what the call raises, given whether the
\* child could be launched and, if so, its return code.
subprocess_run(launched, returncode) ==
    IF ~launched THEN "OSError"
    ELSE IF returncode # 0 THEN "CalledProcessError"
    ELSE "none"

\* The except clauses of check_dependency and run_command.
Caught(exception) == exception = "CalledProcessError"

\* Variant of WaitDone: the call returns without waiting for the child.
WaitDoneNoWait(children) == TRUE

\* subprocess.run returns (or raises CalledProcessError) only once the child
\* it launched has exited.
WaitDone(children) == children = {}

\* Variant of MainAfterCheck: no sys.exit(1) after a failed Yarn check.
MainAfterCheckNoExit(p, result) ==
    IF ~result /\ p = 1 THEN "aborted"
    ELSE IF p < Len(Probes) THEN "check_spawn"
    ELSE "run_spawn"

\* main lines 39-48: where main goes after check_dependency number p returned
\* result.
MainAfterCheck(p, result) ==
    IF ~result THEN "aborted"
    ELSE IF p < Len(Probes) THEN "check_spawn"
    ELSE "run_spawn"

----------------------------------------------------------------------------
VARIABLES
    pc,         \* position of the single thread of control
    probe,      \* index in Probes of the current check_dependency call
    grp,        \* index in InstallCalls of the current install_packages call
    idx,        \* index of the current entry in that call's list
    inflight,   \* commands whose child process is running
    launched,   \* did the last subprocess.run launch its child
    rc,         \* return code of the last child that exited, -1 if none
    retval,     \* what the last check_dependency / run_command returned
    checks,     \* booleans returned by the check_dependency calls, in order
    probesRun,  \* probe commands handed to subprocess.run, in order
    attempts,   \* install commands handed to subprocess.run, in order
    lastLine,   \* the last line printed on standard output
    printed,    \* number of lines printed, by kind
    failedIn,   \* groups in which an install printed a failure line
    sleeps,     \* number of time.sleep(2) calls made
    uncaught,   \* exception that propagated out of main, "none" if none
    exitCode    \* process exit status, -1 while running

vars == <<pc, probe, grp, idx, inflight, launched, rc, retval, checks,
          probesRun, attempts, lastLine, printed, failedIn, sleeps,
          uncaught, exitCode>>

LineKinds == {"checking", "dep_ok", "dep_fail", "instr", "starting", "group",
              "ok", "fail", "banner"}

Line(kind, text) == [kind |-> kind, text |-> text]

\* print(...): one more line of its kind.
Emit(cnt, line) == [cnt EXCEPT ![line.kind] = @ + 1]

Init ==
    /\ pc = "main"
    /\ probe = 0
    /\ grp = 0
    /\ idx = 0
    /\ inflight = {}
    /\ launched = FALSE
    /\ rc = -1
    /\ retval = "None"
    /\ checks = <<>>
    /\ probesRun = <<>>
    /\ attempts = <<>>
    /\ lastLine = Line("none", "")
    /\ printed = [k \in LineKinds |-> 0]
    /\ failedIn = {}
    /\ sleeps = 0
    /\ uncaught = "none"
    /\ exitCode = -1

\* An exception nobody catches: the interpreter prints a traceback on
\* standard error and the process exits with status 1.
Crash(exception) ==
    /\ pc' = "crashed"
    /\ uncaught' = exception
    /\ exitCode' = 1

\* main line 36, up to the first check_dependency call.
MainStart ==
    /\ pc = "main"
    /\ lastLine' = Line("checking", "Checking dependencies...")
    /\ printed' = Emit(printed, lastLine')
    /\ probe' = 1
    /\ pc' = "check_spawn"
    /\ UNCHANGED <<grp, idx, inflight, launched, rc, retval, checks,
                   probesRun, attempts, failedIn, sleeps, uncaught, exitCode>>

\* check_dependency line 10: subprocess.run launches the probe.
CheckSpawn ==
    /\ pc = "check_spawn"
    /\ probesRun' = Append(probesRun, Probes[probe].command)
    /\ inflight' = inflight \cup {Probes[probe].command}
    /\ launched' = TRUE
    /\ retval' = "None"
    /\ pc' = "check_wait"
    /\ UNCHANGED <<probe, grp, idx, rc, checks, attempts, lastLine,
                   printed, failedIn, sleeps, uncaught, exitCode>>

\* check_dependency line 10: subprocess.run cannot launch the child (no
\* shell, fork or pipe failure) and raises OSError.
CheckSpawnError ==
    /\ pc = "check_spawn"
    /\ probesRun' = Append(probesRun, Probes[probe].command)
    /\ launched' = FALSE
    /\ retval' = "None"
    /\ pc' = "check_wait"
    /\ UNCHANGED <<probe, grp, idx, inflight, rc, checks, attempts,
                   lastLine, printed, failedIn, sleeps, uncaught, exitCode>>

\* A running child process exits with some return code.
ChildExit ==
    /\ \E c \in inflight, code \in ExitCodes :
          /\ inflight' = inflight \ {c}
          /\ rc' = code
    /\ UNCHANGED <<pc, probe, grp, idx, launched, retval, checks, probesRun,
                   attempts, lastLine, printed, failedIn, sleeps, uncaught,
                   exitCode>>

\* check_dependency lines 11-15 and the if of main around the call
\* (lines 39-48, and the header of line 51 when both checks passed).
CheckReturn ==
    /\ pc = "check_wait"
    /\ ~launched \/ WaitDone(inflight)
    /\ LET exception == subprocess_run(launched, rc) IN
       IF exception # "none" /\ ~Caught(exception) THEN
           \* no except clause matches: the exception leaves main
           /\ Crash(exception)
           /\ UNCHANGED <<probe, grp, idx, retval, checks, lastLine, printed>>
       ELSE
           LET result == (exception = "none")
               status == Line(IF result THEN "dep_ok" ELSE "dep_fail",
                              Probes[probe].name)
               target == MainAfterCheck(probe, result)
               shown  == Emit(printed, status)
           IN  /\ retval' = IF result THEN "True" ELSE "False"
               /\ checks' = Append(checks, result)
               /\ pc' = target
               /\ UNCHANGED uncaught
               /\ CASE target = "aborted" ->
                         \* lines 40-41, 45-46
                         /\ lastLine' = Line("instr", Probes[probe].name)
                         /\ printed' = Emit(shown, lastLine')
                         /\ exitCode' = 1
                         /\ UNCHANGED <<probe, grp, idx>>
                    [] target = "check_spawn" ->
                         /\ lastLine' = status
                         /\ printed' = shown
                         /\ probe' = probe + 1
                         /\ UNCHANGED <<grp, idx, exitCode>>
                    [] OTHER ->
                         \* lines 48-60
                         /\ lastLine' = Line("group", InstallCalls[1].group)
                         /\ printed' = Emit(Emit(shown, Line("starting",
                                                 "Starting installation...")),
                                            lastLine')
                         /\ grp' = 1
                         /\ idx' = 1
                         /\ UNCHANGED <<probe, exitCode>>
    /\ UNCHANGED <<inflight, launched, rc, probesRun, attempts, failedIn, sleeps>>

\* The entry install_packages is at, and the command it builds for it
\* (lines 31-32).
CurrentEntry == InstallCalls[grp].packages[idx]

CurrentCommand == Command(CurrentEntry[1], InstallCalls[grp].is_dev)

Attempt == [group |-> InstallCalls[grp].group, index |-> idx,
            command |-> CurrentCommand]

\* run_command line 20: subprocess.run launches the install command.
RunSpawn ==
    /\ pc = "run_spawn"
    /\ attempts' = Append(attempts, Attempt)
    /\ inflight' = inflight \cup {CurrentCommand}
    /\ launched' = TRUE
    /\ retval' = "None"
    /\ pc' = "run_wait"
    /\ UNCHANGED <<probe, grp, idx, rc, checks, probesRun, lastLine,
                   printed, failedIn, sleeps, uncaught, exitCode>>

\* run_command line 20: subprocess.run cannot launch the child and raises
\* OSError.
RunSpawnError ==
    /\ pc = "run_spawn"
    /\ attempts' = Append(attempts, Attempt)
    /\ launched' = FALSE
    /\ retval' = "None"
    /\ pc' = "run_wait"
    /\ UNCHANGED <<probe, grp, idx, inflight, rc, checks, probesRun,
                   lastLine, printed, failedIn, sleeps, uncaught, exitCode>>

\* run_command lines 21 and 25: the status line, printed before the pause.
RunReport ==
    /\ pc = "run_wait"
    /\ ~launched \/ WaitDone(inflight)
    /\ LET exception == subprocess_run(launched, rc) IN
       IF exception # "none" /\ ~Caught(exception) THEN
           /\ Crash(exception)
           /\ UNCHANGED <<retval, lastLine, printed, failedIn>>
       ELSE
           LET result == (exception = "none") IN
               /\ lastLine' = Line(IF result THEN "ok" ELSE "fail",
                                   CurrentEntry[2])
               /\ printed' = Emit(printed, lastLine')
               /\ failedIn' = IF result THEN failedIn
                              ELSE failedIn \cup {InstallCalls[grp].group}
               /\ retval' = IF result THEN "True" ELSE "False"
               /\ pc' = "run_sleep"
               /\ UNCHANGED <<uncaught, exitCode>>
    /\ UNCHANGED <<probe, grp, idx, inflight, launched, rc, checks, probesRun,
                   attempts, sleeps>>

\* run_command lines 22-23 and 26-27: time.sleep(2) and the return; then the
\* for loop of install_packages (line 31) and, at the end of a list, main up
\* to the next run_command call or to its end (line 106).
RunSleep ==
    /\ pc = "run_sleep"
    /\ sleeps' = sleeps + 1
    /\ IF idx < Len(InstallCalls[grp].packages) THEN
           /\ idx' = idx + 1
           /\ pc' = "run_spawn"
           /\ UNCHANGED <<grp, lastLine, printed, exitCode>>
       ELSE IF grp < Len(InstallCalls) THEN
           /\ grp' = grp + 1
           /\ idx' = 1
           /\ lastLine' = Line("group", InstallCalls[grp + 1].group)
           /\ printed' = Emit(printed, lastLine')
           /\ pc' = "run_spawn"
           /\ UNCHANGED exitCode
       ELSE
           /\ lastLine' = Line("banner", "Installation completed!")
           /\ printed' = Emit(printed, lastLine')
           /\ pc' = "done"
           /\ exitCode' = 0
           /\ UNCHANGED <<grp, idx>>
    /\ UNCHANGED <<probe, inflight, launched, rc, retval, checks, probesRun,
                   attempts, failedIn, uncaught>>

Next ==
    \/ MainStart
    \/ CheckSpawn
    \/ CheckSpawnError
    \/ ChildExit
    \/ CheckReturn
    \/ RunSpawn
    \/ RunSpawnError
    \/ RunReport
    \/ RunSleep

Spec == Init /\ [][Next]_vars

----------------------------------------------------------------------------
\* Vocabulary of the properties.

Range(seq) == {seq[i] : i \in DOMAIN seq}

Terminal == pc \in {"done", "aborted", "crashed"}

ProbeStatusLines == printed["dep_ok"] + printed["dep_fail"]

InstallStatusLines == printed["ok"] + printed["fail"]

\* check_dependency number p returned True.
ProbePassed(p) == Len(checks) >= p /\ checks[p]

\* Probe number p was run and did not succeed: it exited non-zero, or it
\* could not be launched.
ProbeFailed(p) ==
    \/ Len(checks) >= p /\ ~checks[p]
    \/ pc = "crashed" /\ Len(probesRun) = p /\ Len(checks) = p - 1

BothPassed == ProbePassed(1) /\ ProbePassed(2)

\* The entries of the five groups in declaration order.
AllPackages ==
    core_packages \o db_packages \o security_packages \o utility_packages
        \o dev_packages

FirstDev ==
    Len(core_packages) + Len(db_packages) + Len(security_packages)
        + Len(utility_packages) + 1

\* The words of the i-th install command of a complete run.
ExpectedWords(i) ==
    IF i >= FirstDev THEN <<"yarn", "add", "--dev", AllPackages[i][1]>>
    ELSE <<"yarn", "add", AllPackages[i][1]>>

----------------------------------------------------------------------------
\* C1: if the runtime (Node.js) probe fails, the process exits with status
\* 1, the Yarn probe and every install command are never executed, and the
\* output is the Node.js failure line followed by the instructional message,
\* with no group header and no completion banner.
C1_RuntimeProbeFailureAborts ==
    ProbeFailed(1) =>
        /\ exitCode = 1
        /\ probesRun = <<Probes[1].command>>
        /\ attempts = <<>>
        /\ printed["dep_fail"] = 1
        /\ printed["instr"] = 1
        /\ lastLine = Line("instr", Probes[1].name)
        /\ printed["dep_ok"] = 0
        /\ printed["starting"] = 0
        /\ printed["group"] = 0
        /\ InstallStatusLines = 0
        /\ printed["banner"] = 0

\* C2: if the runtime probe succeeds and the Yarn probe fails, the process
\* exits with status 1 and no install command is ever executed; the Yarn
\* probe is run only after the runtime probe has passed.
C2_PackageManagerProbeFailureAborts ==
    /\ (ProbePassed(1) /\ ProbeFailed(2)) =>
          /\ exitCode = 1
          /\ Terminal
          /\ attempts = <<>>
          /\ inflight = {}
          /\ printed["group"] = 0
    /\ Len(probesRun) >= 2 =>
          /\ ProbePassed(1)
          /\ probesRun = <<Probes[1].command, Probes[2].command>>

C2_Witness ==
    /\ pc = "aborted"
    /\ checks = <<TRUE, FALSE>>
    /\ probesRun = <<"node --version", "yarn --version">>

\* C3: when both probes succeed, whatever the outcomes of the install
\* commands, the finished run has attempted every entry of the five groups
\* exactly once, in the fixed order core, database, security, utility,
\* development, each group in list order.
C3_AllEntriesAttemptedOnceInOrder ==
    (BothPassed /\ Terminal) =>
        /\ Len(attempts) = Len(AllPackages)
        /\ \A i \in DOMAIN attempts :
              ShellWords(attempts[i].command) = ExpectedWords(i)

\* C4: the exit status is 1 iff one of the two probes fails; when both
\* probes pass the run reaches done and exits 0 whatever the outcomes of
\* the install commands.
C4_ExitOneIffProbeFails ==
    /\ exitCode = 1 <=> (ProbeFailed(1) \/ ProbeFailed(2))
    /\ (BothPassed /\ Terminal) => (pc = "done" /\ exitCode = 0)

\* C5 as stated: when both probes and all install commands exit 0, the
\* program prints 23 install success lines and 2 prerequisite success lines,
\* then the completion banner, and exits 0.
C5_TwentyThreeSuccessLines ==
    (pc = "done" /\ printed["fail"] = 0) =>
        /\ printed["ok"] = 23
        /\ Len(attempts) = 23
        /\ printed["dep_ok"] = 2
        /\ printed["banner"] = 1
        /\ lastLine.kind = "banner"
        /\ exitCode = 0

\* C5 amended: when both probes and all install commands exit 0, the
\* program prints 26 install success lines and 2 prerequisite success lines
\* and no failure line, then the completion banner, and exits 0.
C5_TwentySixSuccessLines ==
    (pc = "done" /\ printed["fail"] = 0) =>
        /\ printed["ok"] = 26
        /\ Len(attempts) = 26
        /\ printed["dep_ok"] = 2
        /\ printed["dep_fail"] = 0
        /\ printed["banner"] = 1
        /\ lastLine.kind = "banner"
        /\ exitCode = 0

C5_Witness ==
    /\ pc = "done"
    /\ printed["fail"] = 0
    /\ printed["ok"] = Len(AllPackages)
    /\ failedIn = {}

\* C6: every install command issued for an entry of the development group
\* carries the word --dev, and no install command issued for an entry of
\* the core, database, security or utility group carries it.
C6_DevFlagOnlyForDevelopment ==
    \A i \in DOMAIN attempts :
        ("--dev" \in Range(ShellWords(attempts[i].command)))
            <=> (attempts[i].group = "development")

C6_Witness ==
    /\ \E i \in DOMAIN attempts : attempts[i].group = "development"
    /\ \E i \in DOMAIN attempts : attempts[i].group = "utility"
    /\ Len(attempts) = Len(AllPackages)

\* C7: check_dependency and run_command never raise: for every outcome of
\* the external command (exit 0, non-zero exit, failure to launch) they
\* return True iff the exit code is zero, and no error reaches main.
C7_NeverRaises ==
    /\ uncaught = "none"
    /\ pc # "crashed"
    /\ retval = "True" => (launched /\ rc = 0)
    /\ retval = "False" => (~launched \/ rc # 0)

\* C8: after every install attempt, successful or failed, exactly one pause
\* occurs, after the status line and before run_command returns; no pause
\* occurs after a probe.
C8_OnePauseAfterEveryAttempt ==
    /\ (pc = "run_spawn" \/ Terminal) => sleeps = Len(attempts)
    /\ pc = "run_sleep" =>
          (sleeps = Len(attempts) - 1 /\ InstallStatusLines = Len(attempts))
    /\ attempts = <<>> => sleeps = 0

\* C9: at most one child process is in flight at any time, and a command is
\* launched only when every earlier command has exited and its status line
\* has been printed.
C9_StrictlySequential ==
    /\ Cardinality(inflight) <= 1
    /\ pc \in {"check_spawn", "run_spawn"} =>
          /\ inflight = {}
          /\ ProbeStatusLines + InstallStatusLines
                = Len(probesRun) + Len(attempts)

C9_Witness ==
    /\ pc = "run_wait"
    /\ Cardinality(inflight) = 1
    /\ Len(attempts) = 2
    /\ InstallStatusLines = 1

\* C10: a finished run is in exactly one of done and aborted; the banner is
\* printed iff the run is done, and only after the last development entry
\* was attempted; every command attempted has exactly one status line.
C10_EndsDoneOrAborted ==
    /\ exitCode # -1 => pc \in {"done", "aborted"}
    /\ printed["banner"] = 1 <=> pc = "done"
    /\ printed["banner"] = 1 => Len(attempts) = Len(AllPackages)
    /\ exitCode # -1 =>
          ProbeStatusLines + InstallStatusLines
              = Len(probesRun) + Len(attempts)

====
